---- MODULE Spec2Model ----
(***************************************************************************)
(* Model of qiling/debugger/qdb/frontend.py: the qdb context renderer.     *)
(*                                                                         *)
(* Every renderer (examine_mem, context_reg, context_asm, and the section  *)
(* frame context_printer) is one action: on the arguments and the emulator *)
(* state of `call` (memory, registers, terminal width) it runs to          *)
(* completion and leaves what it printed in `stdout` and the exception the *)
(* caller observes in `exc`.                                               *)
(*                                                                         *)
(* Unsigned integers read from memory are kept as canonical base-256 digit *)
(* sequences (most significant first, no leading zero), so that 8-byte     *)
(* values are exact.                                                       *)
(***************************************************************************)
EXTENDS Integers, Sequences, FiniteSets, TLC

VARIABLES
    call,     \* the renderer called, its arguments and the emulator state
    pc,       \* "call" before the renderer has run, "done" after
    stdout,   \* the sequence of things the call printed
    exc,      \* the exception the call raised to its caller, or NoExc
    locals    \* the local variables of the call the properties look at

vars == <<call, pc, stdout, exc, locals>>

----------------------------------------------------------------------------
(* Bounds of the exploration *)

MaxCount == 5          \* largest element count given to examine_mem
MaxBodyLines == 2      \* most lines a simulated section body prints

----------------------------------------------------------------------------
(* Values *)

NoExc == "none"
MemoryFault == "MemoryFault"
BodyError == "BodyError"
IndexError == "IndexError"
KeyError == "KeyError"
None == <<>>           \* the None of a failed read; like it, falsy (as is b"")

\* a variable that holds None or a value: a register set may be empty ({}),
\* which is not None
Nothing == [some |-> FALSE, val |-> <<>>]
Some(v) == [some |-> TRUE, val |-> v]

Min(a, b) == IF a < b THEN a ELSE b
Max(a, b) == IF a > b THEN a ELSE b

RECURSIVE Strip(_)
\* a digit sequence without its leading zeros
Strip(ds) == IF ds = <<>> \/ Head(ds) # 0 THEN ds ELSE Strip(Tail(ds))

RECURSIVE Reverse(_)
Reverse(s) == IF s = <<>> THEN <<>> ELSE Append(Reverse(Tail(s)), Head(s))

RECURSIVE IntToUInt(_)
\* a natural number as a canonical base-256 digit sequence
IntToUInt(n) == IF n = 0 THEN <<>> ELSE Append(IntToUInt(n \div 256), n % 256)

RECURSIVE LongDiv(_, _, _, _)
\* schoolbook division of the base-256 number ds by the small number b
LongDiv(ds, b, q, r) ==
    IF ds = <<>> THEN [q |-> Strip(q), r |-> r]
    ELSE LET cur == r * 256 + Head(ds)
         IN LongDiv(Tail(ds), b, Append(q, cur \div b), cur % b)

RECURSIVE Digits(_, _)
Digits(v, b) ==
    IF v = <<>> THEN <<>>
    ELSE LET d == LongDiv(v, b, <<>>, 0) IN Append(Digits(d.q, b), d.r)

\* the digits of v in base b, as Python's integer presentation types print them
ToBase(v, b) == IF v = <<>> THEN <<0>> ELSE Digits(v, b)

RECURSIVE Zeros(_)
Zeros(n) == IF n <= 0 THEN <<>> ELSE <<0>> \o Zeros(n - 1)

\* the base of a presentation type of Python's format mini-language
BaseOf(ft) == CASE ft = "x" -> 16 [] ft = "o" -> 8 [] ft = "b" -> 2 [] ft = "d" -> 10

\* "{:0<pad><ft>}".format(v): zero-fill to a minimum width of pad digits
Format(v, pad, ft) ==
    LET ds == ToBase(v, BaseOf(ft)) IN Zeros(pad - Len(ds)) \o ds

----------------------------------------------------------------------------
(* The emulator's memory: a function from the mapped addresses to bytes *)

Readable(mem, address, size) ==
    \A a \in address .. address + size - 1 : a \in DOMAIN mem

\* ql.mem.read of a readable range: its bytes in address order
mem_read(mem, address, size) == [i \in 1 .. size |-> mem[address + i - 1]]

\* ql.unpack, ql.unpack16/32/64: little-endian bytes to an unsigned integer
UnpackLE(bs) == Strip(Reverse(bs))

\* a probe whose handler also swallows the result of a successful read
TryReadAlwaysNone(mem, address, size) == None

\* try to read data from ql memory
_try_read(mem, address, size) ==
    IF Readable(mem, address, size) THEN mem_read(mem, address, size) ELSE None

\* Python truthiness of a read result (None and b"" are falsy)
Truthy(bs) == bs # <<>>

----------------------------------------------------------------------------
(* divider printer *)

\* what a `with context_printer(...)` block prints and raises, where `body`
\* is the outcome [out, exc] of the block's body
context_printer(width, field_name, ruler, body) ==
    LET header == [kind |-> "header", title |-> field_name, ruler |-> ruler,
                   n |-> Max(0, width - Len(field_name) - 1)]
        closing == [kind |-> "rule", ruler |-> ruler, n |-> Max(0, width)]
    IN IF body.exc # NoExc
       THEN [out |-> <<header>> \o body.out, exc |-> body.exc]
       ELSE [out |-> <<header>> \o body.out \o <<closing>>, exc |-> NoExc]

----------------------------------------------------------------------------
(* read data from memory of qiling instance *)

Ceil(a, b) == (a + b - 1) \div b

\* unpack(bs, sz): the table {1: x[0], 2: unpack16, 4: unpack32, 8: unpack64}
unpack(bs, sz) ==
    CASE sz = 1 -> IF bs[1] = 0 THEN <<>> ELSE <<bs[1]>>
      [] sz \in {2, 4, 8} -> UnpackLE(bs)

\* utils.disasm(ql, offset): the instruction at offset, or None
disasm(mem, offset) ==
    IF Readable(mem, offset, 4) /\ mem[offset] # 0
    THEN <<[address |-> offset, mnemonic |-> mem[offset], op_str |-> mem[offset + 1]]>>
    ELSE None

RECURSIVE InsnLines(_, _, _, _)
\* for offset in range(addr, addr+ct*4, 4): print the line disasm gives, if any
InsnLines(mem, offset, stop, acc) ==
    IF offset >= stop THEN acc
    ELSE LET line == disasm(mem, offset)
         IN InsnLines(mem, offset + 4, stop,
                IF line # None
                THEN Append(acc, [kind |-> "insn", address |-> line[1].address,
                                  mnemonic |-> line[1].mnemonic,
                                  op_str |-> line[1].op_str, marker |-> FALSE])
                ELSE acc)

\* prefix = "0x" if ft in ("x", "a") else ""
Prefix(ft) == IF ft \in {"x", "a"} THEN "0x" ELSE ""

\* pad = '0' + str(sz*2) if ft in ('x', 'a', 't') else ''   (0: no padding)
Pad(ft, sz) == IF ft \in {"x", "a", "t"} THEN sz * 2 ELSE 0

\* str.lower() of a one-letter format kind
Lower(ft) ==
    CASE ft = "A" -> "a" [] ft = "B" -> "b" [] ft = "C" -> "c" [] ft = "D" -> "d"
      [] ft = "E" -> "e" [] ft = "F" -> "f" [] ft = "G" -> "g" [] ft = "H" -> "h"
      [] ft = "I" -> "i" [] ft = "J" -> "j" [] ft = "K" -> "k" [] ft = "L" -> "l"
      [] ft = "M" -> "m" [] ft = "N" -> "n" [] ft = "O" -> "o" [] ft = "P" -> "p"
      [] ft = "Q" -> "q" [] ft = "R" -> "r" [] ft = "S" -> "s" [] ft = "T" -> "t"
      [] ft = "U" -> "u" [] ft = "V" -> "v" [] ft = "W" -> "w" [] ft = "X" -> "x"
      [] ft = "Y" -> "y" [] ft = "Z" -> "z" [] OTHER -> ft

\* s.replace(old, new) of a one-letter string
Replace(s, old, new) == IF s = old THEN new ELSE s

\* ft = ft.lower() if ft in ("x","o","b","d")
\*      else ft.lower().replace("t", "b").replace("a", "x")
NextFt(ft) ==
    IF ft \in {"x", "o", "b", "d"} THEN Lower(ft)
    ELSE Replace(Replace(Lower(ft), "t", "b"), "a", "x")

RECURSIVE RowElems(_, _, _, _)
\* for each in mem_read[idx:idx+4]: print it; ft is reassigned on the way
RowElems(elems, sz, ft, acc) ==
    IF elems = <<>> THEN [out |-> acc, ft |-> ft]
    ELSE LET data == unpack(Head(elems), sz)
             prefix == Prefix(ft)
             pad == Pad(ft, sz)
             ft2 == NextFt(ft)
         IN RowElems(Tail(elems), sz, ft2,
                Append(acc, [kind |-> "elem", prefix |-> prefix, pad |-> pad,
                             ft |-> ft2, data |-> data,
                             text |-> Format(data, pad, ft2)]))

\* the row count with a floor division in place of math.ceil
LinesFloor(ct) == IF ct <= 4 THEN 1 ELSE ct \div 4

\* lines = 1 if ct <= 4 else math.ceil(ct / 4)
Lines(ct) == IF ct <= 4 THEN 1 ELSE Ceil(ct, 4)

RECURSIVE Rows(_, _, _, _, _, _, _)
\* for line in range(lines): the row header, up to 4 elements, a line break
Rows(read, addr, sz, ft, line, lines, acc) ==
    IF line >= lines THEN acc
    ELSE LET offset == line * sz * 4
             idx == line * 4
             row == RowElems(SubSeq(read, idx + 1, Min(idx + 4, Len(read))),
                             sz, ft, <<>>)
         IN Rows(read, addr, sz, row.ft, line + 1, lines,
                 acc \o <<[kind |-> "rowhdr", addr |-> addr + offset,
                           text |-> Format(IntToUInt(addr + offset), 0, "x")]>>
                     \o row.out \o <<[kind |-> "nl"]>>)

examine_mem(mem, addr, fmt) ==
    LET ft == fmt[1]
        sz == fmt[2]
        ct == fmt[3]
    IN IF ft = "i"
       THEN [out |-> InsnLines(mem, addr, addr + ct * 4, <<>>) \o <<[kind |-> "nl"]>>,
             exc |-> NoExc]
       ELSE IF \E offset \in 0 .. ct - 1 : ~Readable(mem, addr + offset * sz, sz)
            THEN [out |-> <<>>, exc |-> MemoryFault]
            ELSE LET read == [k \in 1 .. ct |-> mem_read(mem, addr + (k - 1) * sz, sz)]
                 IN [out |-> Rows(read, addr, sz, ft, 0, Lines(ct), <<>>),
                     exc |-> NoExc]

----------------------------------------------------------------------------
(* Register sets: Python dicts, kept as sequences of <<name, value>> in     *)
(* insertion order                                                         *)

Keys(d) == {d[i][1] : i \in 1 .. Len(d)}

\* d[k]
Get(d, k) == d[CHOOSE i \in 1 .. Len(d) : d[i][1] = k][2]

\* d after d.pop(k)
Pop(d, k) == SelectSeq(d, LAMBDA e : e[1] # k)

\* d after d.update({k: v}): an existing key keeps its place, a new one is last
Update(d, k, v) ==
    IF k \in Keys(d)
    THEN [i \in 1 .. Len(d) |-> IF d[i][1] = k THEN <<k, v>> ELSE d[i]]
    ELSE Append(d, <<k, v>>)

\* qiling.const: the pointer width of an architecture
ArchBit(archtype) ==
    CASE archtype \in {"MIPS", "ARM", "ARM_THUMB", "X86"} -> 32
      [] archtype \in {"X8664", "ARM64"} -> 64
      [] archtype = "A8086" -> 16

MipsRegNames ==
    <<"gp", "at", "v0", "v1", "a0", "a1", "a2", "a3",
      "t0", "t1", "t2", "t3", "t4", "t5", "t6", "t7",
      "t8", "t9", "sp", "s8", "s0", "s1", "s2", "s3",
      "s4", "s5", "s6", "s7", "ra", "k0", "k1", "pc">>

ArmRegNames ==
    <<"r0", "r1", "r2", "r3", "r4", "r5", "r6", "r7",
      "r8", "r9", "r10", "r11", "r12", "sp", "lr", "pc",
      "d0", "d1", "d2", "d3", "d4", "d5", "d6", "d7",
      "d8", "d9", "d10", "d11", "d12", "d13", "d14", "d15">>

OtherRegNames == <<"ax", "bx", "cx", "dx", "sp", "bp", "si", "di", "ip">>

RegNames(archtype) ==
    CASE archtype = "MIPS" -> MipsRegNames
      [] archtype \in {"ARM", "ARM_THUMB"} -> ArmRegNames
      [] OTHER -> OtherRegNames

\* utils.dump_regs(ql): the first n registers of the architecture, by raw name
dump_regs(archtype, n, value) ==
    [i \in 1 .. n |-> <<RegNames(archtype)[i], value[i]>>]

\* a register set, or the KeyError of a pop of a name it does not hold
Ok(d) == [d |-> d, exc |-> NoExc]

\* r.update({alias: r.pop(raw)}) on the outcome r of the lines before
Rename(r, raw, alias) ==
    IF r.exc # NoExc THEN r
    ELSE IF raw \notin Keys(r.d) THEN [d |-> r.d, exc |-> KeyError]
    ELSE Ok(Update(Pop(r.d, raw), alias, Get(r.d, raw)))

\* _cur_regs.update({"fp": _cur_regs.pop("s8")})
MipsCurRegs(regs) == Rename(Ok(regs), "s8", "fp")

\* _saved_states = copy.deepcopy(saved_states); .update({"fp": .pop("s8")})
MipsSavedStates(saved_states) == Rename(Ok(saved_states), "s8", "fp")

\* the renaming with r12 stored under r11's alias
ArmCurRegsCollide(regs) ==
    Rename(Rename(Rename(Ok(regs), "r10", "sl"), "r11", "fp"), "r12", "fp")

\* the three update/pop lines on _cur_regs: r10 -> sl, r11 -> fp, r12 -> ip
ArmCurRegs(regs) ==
    Rename(Rename(Rename(Ok(regs), "r10", "sl"), "r11", "fp"), "r12", "ip")

\* the three update/pop lines on the deep copy of saved_states
ArmSavedStates(saved_states) ==
    Rename(Rename(Rename(Ok(saved_states), "r10", "sl"), "r11", "fp"), "r12", "ip")

\* the diff with the comparison inverted
DiffEqual(_cur_regs, _saved_states) ==
    LET same == SelectSeq(_cur_regs, LAMBDA e : e[2] = Get(_saved_states, e[1]))
    IN [i \in 1 .. Len(same) |-> same[i][1]]

\* _diff = [k for k in _cur_regs if _cur_regs[k] != _saved_states[k]]
Diff(_cur_regs, _saved_states) ==
    LET changed == SelectSeq(_cur_regs, LAMBDA e : e[2] # Get(_saved_states, e[1]))
    IN [i \in 1 .. Len(changed) |-> changed[i][1]]

InSeq(x, s) == \E i \in 1 .. Len(s) : s[i] = x

\* if _diff and r in _diff   (_diff is None or a list)
Emphasis(_diff, r) == _diff.some /\ _diff.val # <<>> /\ InSeq(r, _diff.val)

_colors ==
    <<"DARKCYAN", "BLUE", "RED", "YELLOW", "GREEN", "PURPLE", "CYAN", "WHITE">>

\* the MIPS rule without the exception for the last register
MipsBreakEvery4(idx) == idx % 4 = 0

\* MIPS: if idx % 4 == 0 and idx != 32: line += "\n"
MipsBreak(idx) == idx % 4 = 0 /\ idx # 32

\* ARM: if idx % 4 == 0: line += "\n"
ArmBreak(idx) == idx % 4 = 0

\* _colors[(idx-1) // 4]
ColorIndex(idx) == (idx - 1) \div 4

\* the register grid: one entry per register of _cur_regs, then print's newline
Grid(archtype, _cur_regs, _diff) ==
    IF \E idx \in 1 .. Len(_cur_regs) : ColorIndex(idx) + 1 > Len(_colors)
    THEN [out |-> <<>>, exc |-> IndexError]
    ELSE [out |->
            [idx \in 1 .. Len(_cur_regs) |->
                [kind |-> "reg", name |-> _cur_regs[idx][1],
                 color |-> _colors[ColorIndex(idx) + 1],
                 emph |-> Emphasis(_diff, _cur_regs[idx][1]),
                 brk |-> IF archtype = "MIPS" THEN MipsBreak(idx) ELSE ArmBreak(idx),
                 text |-> Format(_cur_regs[idx][2], 8, "x")]]
            \o <<[kind |-> "nl"]>>,
          exc |-> NoExc]

\* the locals of the [Registers] block when the branch for archtype has run
\* or has raised (exc); a local not assigned is Nothing, as is a None
RegLocals(archtype, regs, saved_states) ==
    IF archtype \in {"MIPS", "ARM", "ARM_THUMB"}
    THEN LET cur == IF archtype = "MIPS" THEN MipsCurRegs(regs) ELSE ArmCurRegs(regs)
             saved == IF archtype = "MIPS" THEN MipsSavedStates(saved_states.val)
                      ELSE ArmSavedStates(saved_states.val)
         IN IF cur.exc # NoExc
            THEN [_cur_regs |-> cur.d, _saved_states |-> Nothing, _diff |-> Nothing,
                  exc |-> cur.exc]
            ELSE IF ~saved_states.some               \* saved_states is None
            THEN [_cur_regs |-> cur.d, _saved_states |-> Nothing, _diff |-> Nothing,
                  exc |-> NoExc]
            ELSE IF saved.exc # NoExc
            THEN [_cur_regs |-> cur.d, _saved_states |-> Some(saved.d),
                  _diff |-> Nothing, exc |-> saved.exc]
            ELSE IF ~(Keys(cur.d) \subseteq Keys(saved.d))   \* _saved_states[k]
            THEN [_cur_regs |-> cur.d, _saved_states |-> Some(saved.d),
                  _diff |-> Nothing, exc |-> KeyError]
            ELSE [_cur_regs |-> cur.d, _saved_states |-> Some(saved.d),
                  _diff |-> Some(Diff(cur.d, saved.d)), exc |-> NoExc]
    ELSE [_cur_regs |-> regs, _saved_states |-> Nothing, _diff |-> Nothing,
          exc |-> NoExc]

\* the body of `with context_printer(ql, "[Registers]")`
RegistersBody(archtype, regs, saved_states) ==
    LET l == RegLocals(archtype, regs, saved_states)
    IN IF l.exc # NoExc THEN [out |-> <<>>, exc |-> l.exc]
       ELSE IF archtype = "MIPS"
       THEN Grid(archtype, l._cur_regs, l._diff)
       ELSE IF archtype \in {"ARM", "ARM_THUMB"}
       THEN LET g == Grid(archtype, l._cur_regs, l._diff)
            IN IF g.exc # NoExc THEN g
               ELSE [out |-> g.out \o <<[kind |-> "flags"]>>, exc |-> NoExc]
       ELSE [out |-> <<>>, exc |-> NoExc]

StackSlots == 8        \* for idx in range(8)
SlotStep == 4          \* _addr = ql.reg.arch_sp + idx * 4
DerefSize == 4         \* _deref = ql.mem.read(_addr, 4)

RECURSIVE StackBody(_, _, _, _, _)
\* the body of `with context_printer(ql, "[Stack]", ruler="-")`
StackBody(mem, arch_sp, archbit, idx, acc) ==
    IF idx >= StackSlots THEN [out |-> acc, exc |-> NoExc]
    ELSE LET _addr == arch_sp + idx * SlotStep
         IN IF ~Readable(mem, _addr, archbit \div 8)
            THEN [out |-> acc, exc |-> MemoryFault]
            ELSE LET _val == mem_read(mem, _addr, archbit \div 8)
                     slot == [kind |-> "slot", off |-> idx * SlotStep, addr |-> _addr,
                              size |-> archbit \div 8,
                              offtext |-> Format(IntToUInt(idx * SlotStep), 2, "x"),
                              addrtext |-> Format(IntToUInt(_addr), 8, "x"),
                              text |-> Format(UnpackLE(_val), 8, "x")]
                     _deref == _try_read(mem, _addr, DerefSize)
                 IN StackBody(mem, arch_sp, archbit, idx + 1,
                        IF Truthy(_deref)
                        THEN acc \o <<slot, [kind |-> "deref",
                                             text |-> Format(UnpackLE(_deref), 8, "x")]>>
                        ELSE Append(acc, slot))

context_reg(mem, width, archtype, regs, saved_states, arch_sp) ==
    LET registers == context_printer(width, "[Registers]", "=",
                                     RegistersBody(archtype, regs, saved_states))
        stack == context_printer(width, "[Stack]", "-",
                                 StackBody(mem, arch_sp, ArchBit(archtype), 0, <<>>))
    IN IF registers.exc # NoExc THEN registers
       ELSE [out |-> registers.out \o stack.out, exc |-> stack.exc]

----------------------------------------------------------------------------
(* The code window *)

RECURSIVE Disassemble(_, _)
\* md.disasm(bytes, base): fixed 4-byte instructions, decoded until the bytes
\* run out or an opcode (here the byte 0) does not decode
Disassemble(bs, base) ==
    IF Len(bs) < 4 \/ bs[1] = 0 THEN <<>>
    ELSE <<[address |-> base, mnemonic |-> bs[1], op_str |-> bs[2]]>>
         \o Disassemble(SubSeq(bs, 5, Len(bs)), base + 4)

\* one line per instruction, the one at the program counter marked "PC ==>"
print_asm(arch_pc, instructions) ==
    [i \in 1 .. Len(instructions) |->
        [kind |-> "insn", address |-> instructions[i].address,
         mnemonic |-> instructions[i].mnemonic, op_str |-> instructions[i].op_str,
         marker |-> (arch_pc = instructions[i].address)]]

LookBack == 16         \* address-0x10, and the 0x10 bytes read there
LookAhead == 4         \* address+4
WindowSize == 16       \* the 0x10 bytes read at address+4

\* the body of `with context_printer(ql, field_name="[Code]")`
CodeBody(mem, arch_pc, address, size) ==
    LET pre_tmp == _try_read(mem, address - LookBack, LookBack)
        pre == IF Truthy(pre_tmp)
               THEN print_asm(arch_pc, Disassemble(pre_tmp, address - LookBack))
               ELSE <<>>
        pos_tmp == _try_read(mem, address + LookAhead, WindowSize)
        pos == IF Truthy(pos_tmp)
               THEN print_asm(arch_pc, Disassemble(pos_tmp, address + LookAhead))
               ELSE <<>>
    IN IF ~Readable(mem, address, size)
       THEN [out |-> pre, exc |-> MemoryFault]
       ELSE LET tmp == mem_read(mem, address, size)
                cur == print_asm(arch_pc, Disassemble(tmp, address))
            IN [out |-> pre \o cur \o pos, exc |-> NoExc]

context_asm(mem, width, arch_pc, address, size) ==
    context_printer(width, "[Code]", "=", CodeBody(mem, arch_pc, address, size))

----------------------------------------------------------------------------
(* The inputs the renderers are explored on *)

MaxAddr == 32 + 8 * MaxCount

Patterns == {"zero", "ramp", "ones"}

PatternByte(p, a) ==
    CASE p = "zero" -> 0
      [] p = "ramp" -> (a % 255) + 1
      [] p = "ones" -> 255

\* a memory whose addresses 0..MaxAddr are mapped, except those of `unmapped`
Memory(unmapped, p) == [a \in (0 .. MaxAddr) \ unmapped |-> PatternByte(p, a)]

Widths == {8, 80}
Rulers == {"=", "-"}
Titles == {"[Registers]", "[Stack]", "[Code]"}

FormatKinds == {"i", "x", "o", "b", "d", "a", "t", "X", "A", "T"}
ElementSizes == {1, 2, 4, 8}
ExamineAddrs == {0, 16}

Archs == {"MIPS", "ARM", "ARM_THUMB", "X86", "X8664", "ARM64", "A8086"}

RegCounts(archtype) ==
    CASE archtype = "MIPS" -> {20, 32}
      [] archtype \in {"ARM", "ARM_THUMB"} -> {16, 32}
      [] OTHER -> {Len(OtherRegNames)}

\* the value of the register at position i
RegValue(i) == IntToUInt(i * 4099)

\* the registers in which a previous snapshot differs from the current one:
\* none, one, or all of them
ChangedChoices(n) == {{}, 1 .. n} \cup {{i} : i \in 1 .. n}

\* no previous snapshot, or one with the registers of `changed` changed
SavedChoices(n) == {<<FALSE, {}>>} \cup {<<TRUE, c>> : c \in ChangedChoices(n)}

\* a previous snapshot (None when none is given)
SavedStates(archtype, n, given, changed) ==
    IF ~given THEN Nothing
    ELSE Some(dump_regs(archtype, n,
            [i \in 1 .. n |-> IF i \in changed
                              THEN IntToUInt(i * 4099 + 1) ELSE RegValue(i)]))

StackPointers == {0, 16}

\* how many bytes from the stack pointer on are mapped: up to each slot, in
\* the middle of a slot, and the whole dump
StackTops == {4 * i : i \in 0 .. StackSlots + 1} \cup {2, 30}

RenamingArchs == {"MIPS", "ARM", "ARM_THUMB"}

----------------------------------------------------------------------------
(* The state machine: a call is made with some arguments on some emulator  *)
(* state (Init draws them), and the renderer called runs to completion.    *)

NoLocals == [_cur_regs |-> <<>>, _saved_states |-> Nothing, _diff |-> Nothing]

\* a `with context_printer(...)` block whose body prints `lines` lines and
\* then returns or fails
PrinterCalls ==
    {[op |-> "context_printer", field_name |-> field_name, ruler |-> ruler,
      width |-> width, lines |-> lines, fails |-> fails] :
        field_name \in Titles, ruler \in Rulers, width \in Widths,
        lines \in 0 .. MaxBodyLines, fails \in BOOLEAN}

\* examine_mem on a memory where the elements of `bad` are unmapped
ExamineCalls ==
    UNION {
        {[op |-> "examine_mem", addr |-> addr, ft |-> ft, sz |-> sz, ct |-> ct,
          bad |-> bad,
          mem |-> LET step == IF ft = "i" THEN 4 ELSE sz
                  IN Memory(UNION {addr + k * step .. addr + k * step + step - 1 :
                                   k \in bad}, p)] :
            addr \in ExamineAddrs, ft \in FormatKinds, sz \in ElementSizes,
            p \in {"zero", "ramp"}, bad \in SUBSET (0 .. ct - 1)} :
        ct \in 0 .. MaxCount}

\* context_reg on a stack mapped up to (not including) arch_sp + top
RegCalls ==
    UNION {
        {[op |-> "context_reg", width |-> width, archtype |-> archtype,
          arch_sp |-> arch_sp,
          mem |-> Memory(arch_sp + top .. MaxAddr, p),
          regs |-> dump_regs(archtype, n, [i \in 1 .. n |-> RegValue(i)]),
          saved_states |-> SavedStates(archtype, n, sv[1], sv[2])] :
            width \in Widths, arch_sp \in StackPointers, p \in {"ramp"},
            top \in StackTops,
            sv \in IF archtype \in RenamingArchs THEN SavedChoices(n)
                   ELSE {<<FALSE, {}>>}} :
        <<archtype, n>> \in UNION {{<<a, m>> : m \in RegCounts(a)} : a \in Archs}}

\* context_asm on a memory where the windows of `gone` are unmapped
AsmCalls ==
    {[op |-> "context_asm", width |-> width, arch_pc |-> address + pcoff,
      address |-> address, size |-> size,
      mem |-> Memory(
        (IF "pre" \in gone THEN address - LookBack .. address - 1 ELSE {})
        \cup (IF "cur" \in gone THEN address .. address + size - 1 ELSE {})
        \cup (IF "pos" \in gone
              THEN address + LookAhead .. address + LookAhead + WindowSize - 1
              ELSE {}), p)] :
        address \in {0, 16, 32}, size \in {2, 4}, width \in Widths, p \in Patterns,
        pcoff \in {0 - 16, 0, 4}, gone \in SUBSET {"pre", "cur", "pos"}}

Init ==
    /\ \/ call \in PrinterCalls
       \/ call \in ExamineCalls
       \/ call \in RegCalls
       \/ call \in AsmCalls
    /\ pc = "call"
    /\ stdout = <<>>
    /\ exc = NoExc
    /\ locals = NoLocals

ContextPrinter ==
    /\ pc = "call"
    /\ call.op = "context_printer"
    /\ LET body == [out |-> [i \in 1 .. call.lines |-> [kind |-> "body", line |-> i]],
                    exc |-> IF call.fails THEN BodyError ELSE NoExc]
           r == context_printer(call.width, call.field_name, call.ruler, body)
       IN /\ stdout' = r.out
          /\ exc' = r.exc
    /\ pc' = "done"
    /\ UNCHANGED <<call, locals>>

ExamineMem ==
    /\ pc = "call"
    /\ call.op = "examine_mem"
    /\ LET r == examine_mem(call.mem, call.addr, <<call.ft, call.sz, call.ct>>)
       IN /\ stdout' = r.out
          /\ exc' = r.exc
    /\ pc' = "done"
    /\ UNCHANGED <<call, locals>>

ContextReg ==
    /\ pc = "call"
    /\ call.op = "context_reg"
    /\ LET r == context_reg(call.mem, call.width, call.archtype, call.regs,
                            call.saved_states, call.arch_sp)
       IN /\ stdout' = r.out
          /\ exc' = r.exc
    /\ LET l == RegLocals(call.archtype, call.regs, call.saved_states)
       IN locals' = [_cur_regs |-> l._cur_regs, _saved_states |-> l._saved_states,
                     _diff |-> l._diff]
    /\ pc' = "done"
    /\ UNCHANGED call

ContextAsm ==
    /\ pc = "call"
    /\ call.op = "context_asm"
    /\ LET r == context_asm(call.mem, call.width, call.arch_pc, call.address,
                            call.size)
       IN /\ stdout' = r.out
          /\ exc' = r.exc
    /\ pc' = "done"
    /\ UNCHANGED <<call, locals>>

Next == ContextPrinter \/ ExamineMem \/ ContextReg \/ ContextAsm

Spec == Init /\ [][Next]_vars

----------------------------------------------------------------------------
(* Properties *)

Done(op) == pc = "done" /\ call.op = op

Last(s) == s[Len(s)]

OfKind(k) == SelectSeq(stdout, LAMBDA e : e.kind = k)

\* the positions in stdout of the events of kind k, in order
Positions(k) == SelectSeq([i \in 1 .. Len(stdout) |-> i], LAMBDA i : stdout[i].kind = k)

\* C1: on every exit path of a section body, normal or failing, what is
\* printed is the header, the body's output and then the closing rule (the
\* rule character repeated terminal-width times); a failure reaches the
\* caller only after that.
C1_ClosingRuleOnEveryExit ==
    Done("context_printer") =>
        /\ Len(stdout) = call.lines + 2
        /\ stdout[1].kind = "header"
        /\ \A i \in 1 .. call.lines : stdout[i + 1] = [kind |-> "body", line |-> i]
        /\ Last(stdout) = [kind |-> "rule", ruler |-> call.ruler, n |-> call.width]
        /\ exc = (IF call.fails THEN BodyError ELSE NoExc)

\* element k (from 0) of an examine_mem call is readable
ElemReadable(k) == Readable(call.mem, call.addr + k * call.sz, call.sz)

\* the value of element k (from 0) of an examine_mem call
ElemValue(k) == unpack(mem_read(call.mem, call.addr + k * call.sz, call.sz), call.sz)

\* the values printed in row r (from 0) of the grid
RowPrinted(r) ==
    LET from == Positions("rowhdr")[r + 1]
        to == SelectSeq(Positions("nl"), LAMBDA i : i > from)[1]
    IN [j \in 1 .. to - from - 1 |-> stdout[from + j].data]

\* the values of the readable elements among elements 4r .. 4r+3
RowReadable(r) ==
    LET ks == SelectSeq([j \in 1 .. 4 |-> 4 * r + j - 1],
                        LAMBDA k : k < call.ct /\ ElemReadable(k))
    IN [j \in 1 .. Len(ks) |-> ElemValue(ks[j])]

RowCount == IF call.ct <= 4 THEN 1 ELSE (call.ct + 3) \div 4

\* C2: in examine_mem with a non-instruction format, a failed read of an
\* element does not abort the call: no failure reaches the caller, every row
\* is printed, and it holds exactly its readable elements, in order.
C2_FailedReadOmitsElement ==
    (Done("examine_mem") /\ call.ft # "i") =>
        /\ exc = NoExc
        /\ Len(OfKind("rowhdr")) = RowCount
        /\ \A r \in 0 .. RowCount - 1 : RowPrinted(r) = RowReadable(r)

\* C3: in context_reg no memory fault of the stack dump reaches the caller:
\* every slot whose value is readable is printed and the "[Stack]" section
\* is closed by its rule.
C3_StackFaultNeverPropagates ==
    Done("context_reg") =>
        /\ exc = NoExc
        /\ \A idx \in 0 .. StackSlots - 1 :
              Readable(call.mem, call.arch_sp + idx * SlotStep,
                       ArchBit(call.archtype) \div 8)
              => \E i \in 1 .. Len(stdout) :
                    /\ stdout[i].kind = "slot"
                    /\ stdout[i].addr = call.arch_sp + idx * SlotStep
        /\ Last(stdout) = [kind |-> "rule", ruler |-> "-", n |-> call.width]

\* the lines of a window of the code view: those of its instructions if its
\* bytes are readable, none otherwise
Window(base, size) ==
    IF Readable(call.mem, base, size)
    THEN print_asm(call.arch_pc, Disassemble(mem_read(call.mem, base, size), base))
    ELSE <<>>

\* C4: when the bytes of the current instruction are readable, context_asm
\* completes without failure whatever the lookback and lookahead probes
\* give; it prints one opening rule line, then the lookback window if its
\* probe succeeded, the current window, the lookahead window if its probe
\* succeeded, and one closing rule line, and nothing else.
C4_CodeWindowFramed ==
    (Done("context_asm") /\ Readable(call.mem, call.address, call.size)) =>
        /\ exc = NoExc
        /\ stdout =
              <<[kind |-> "header", title |-> "[Code]", ruler |-> "=",
                 n |-> Max(0, call.width - 7)]>>
              \o Window(call.address - 16, 16)
              \o Window(call.address, call.size)
              \o Window(call.address + 4, 16)
              \o <<[kind |-> "rule", ruler |-> "=", n |-> call.width]>>
        /\ Len(OfKind("header")) = 1
        /\ Len(OfKind("rule")) = 1

C4_Witness ==
    /\ Done("context_asm")
    /\ Readable(call.mem, call.address, call.size)
    /\ ~Readable(call.mem, call.address - 16, 16)
    /\ Readable(call.mem, call.address + 4, 16)
    /\ exc = NoExc
    /\ Len(OfKind("insn")) = 5
    /\ stdout[2].address = call.address
    /\ Last(stdout).kind = "rule"

\* the conventional name a raw register name is displayed under
AliasOf(archtype, name) ==
    IF archtype = "MIPS"
    THEN (IF name = "s8" THEN "fp" ELSE name)
    ELSE CASE name = "r10" -> "sl"
           [] name = "r11" -> "fp"
           [] name = "r12" -> "ip"
           [] OTHER -> name

\* the aliases of the registers whose value differs between the two
\* snapshots given to context_reg
ChangedAliases ==
    {AliasOf(call.archtype, call.regs[i][1]) :
        i \in {j \in 1 .. Len(call.regs) :
                 call.regs[j][2] # Get(call.saved_states.val, call.regs[j][1])}}

Range(s) == {s[i] : i \in 1 .. Len(s)}

\* C5: with a previous snapshot given (MIPS and ARM branches), the diff is
\* exactly the set of renamed registers whose value differs from the
\* previous one: it is empty when the snapshots are equal, and a register is
\* emphasised iff it is in the diff.
C5_DiffIsChangedSet ==
    (Done("context_reg") /\ call.archtype \in RenamingArchs
        /\ call.saved_states.some) =>
        /\ exc # KeyError
        /\ locals._diff.some
        /\ Range(locals._diff.val) = ChangedAliases
        /\ (call.saved_states.val = call.regs => locals._diff.val = <<>>)
        /\ Len(OfKind("reg")) = Len(call.regs)
        /\ \A i \in 1 .. Len(stdout) :
              stdout[i].kind = "reg" =>
                  (stdout[i].emph <=> stdout[i].name \in ChangedAliases)

C5_Witness ==
    /\ Done("context_reg")
    /\ call.archtype = "MIPS"
    /\ call.saved_states.some
    /\ locals._diff = Some(<<"fp">>)
    /\ \E i \in 1 .. Len(stdout) :
          stdout[i].kind = "reg" /\ stdout[i].name = "fp" /\ stdout[i].emph
    /\ \E i \in 1 .. Len(stdout) :
          stdout[i].kind = "reg" /\ stdout[i].name = "sp" /\ ~stdout[i].emph

\* a register set after renaming, as a set of <<alias, value>>
Renamed(archtype, d) == {<<AliasOf(archtype, d[i][1]), d[i][2]>> : i \in 1 .. Len(d)}

\* C6: alias renaming (MIPS: s8->fp; ARM: r10->sl, r11->fp, r12->ip) is a
\* bijection on the register names: the renamed set is as large as the
\* input, no two raw names share an alias, every entry keeps the value of
\* its raw register, and the previous snapshot is renamed in the same way
\* as the current set.
C6_AliasRenamingBijection ==
    (Done("context_reg") /\ call.archtype \in RenamingArchs) =>
        /\ Len(locals._cur_regs) = Len(call.regs)
        /\ Cardinality(Keys(locals._cur_regs)) = Len(call.regs)
        /\ Range(locals._cur_regs) = Renamed(call.archtype, call.regs)
        /\ \A i, j \in 1 .. Len(call.regs) :
              AliasOf(call.archtype, call.regs[i][1])
                = AliasOf(call.archtype, call.regs[j][1]) => i = j
        /\ call.saved_states.some =>
              /\ locals._saved_states.some
              /\ Len(locals._saved_states.val) = Len(call.saved_states.val)
              /\ Range(locals._saved_states.val)
                    = Renamed(call.archtype, call.saved_states.val)
              /\ Keys(locals._saved_states.val) = Keys(locals._cur_regs)

C6_Witness ==
    /\ Done("context_reg")
    /\ call.archtype = "ARM"
    /\ call.saved_states.some
    /\ {"r10", "r11", "r12"} \subseteq Keys(call.regs)
    /\ {"sl", "fp", "ip"} \subseteq Keys(locals._cur_regs)
    /\ {"sl", "fp", "ip"} \subseteq Keys(locals._saved_states.val)
    /\ Keys(locals._cur_regs) \cap {"r10", "r11", "r12"} = {}

\* C7: in examine_mem with a non-instruction format, count >= 1 and every
\* element readable, the rows printed are 1 if count <= 4 else ceil(count/4);
\* row r is headed by addr + r*4*size and holds exactly the elements
\* 4r .. min(4r+3, count-1), in order.
C7_RowsLayout ==
    (Done("examine_mem") /\ call.ft # "i" /\ call.ct >= 1
        /\ \A k \in 0 .. call.ct - 1 : ElemReadable(k)) =>
        /\ exc = NoExc
        /\ Len(OfKind("rowhdr")) = RowCount
        /\ Len(OfKind("nl")) = RowCount
        /\ Len(OfKind("elem")) = call.ct
        /\ \A r \in 0 .. RowCount - 1 :
              /\ OfKind("rowhdr")[r + 1].addr = call.addr + r * 4 * call.sz
              /\ RowPrinted(r) =
                    [j \in 1 .. Min(4, call.ct - 4 * r) |-> ElemValue(4 * r + j - 1)]

C7_Witness ==
    /\ Done("examine_mem")
    /\ call.ft = "x" /\ call.sz = 4 /\ call.ct = 5
    /\ exc = NoExc
    /\ Len(OfKind("rowhdr")) = 2
    /\ Len(RowPrinted(0)) = 4
    /\ Len(RowPrinted(1)) = 1

\* C8: within one examine_mem call every element is rendered with the
\* base, the pad width and the prefix of the first one, which the format
\* kind and the element size determine (hex and address: 2*size digits,
\* prefix 0x).
C8_FormatDeterminedByKind ==
    (Done("examine_mem") /\ call.ft # "i" /\ exc = NoExc) =>
        \A i \in 1 .. Len(OfKind("elem")) :
            LET e == OfKind("elem")[i]
                first == OfKind("elem")[1]
            IN /\ e.ft = first.ft
               /\ e.pad = first.pad
               /\ e.prefix = first.prefix
               /\ call.ft \in {"x", "a"} => (e.pad = 2 * call.sz /\ e.prefix = "0x")

\* C9: for a pointer width of 32 or 64 bits the slots of the stack dump are
\* consecutive pointer-width slots from the stack pointer on: slot i is read
\* at sp + i*(width/8), which is also its printed offset, so no two slots
\* overlap.
C9_StackSlotsPointerWidth ==
    (Done("context_reg") /\ ArchBit(call.archtype) \in {32, 64}) =>
        \A i \in 1 .. Len(OfKind("slot")) :
            LET e == OfKind("slot")[i]
                w == ArchBit(call.archtype) \div 8
            IN /\ e.size = w
               /\ e.addr = call.arch_sp + (i - 1) * w
               /\ e.off = (i - 1) * w

\* C10: registers are rendered in order with color index floor((pos-1)/4),
\* inside the 8-color palette for positions 1..32, and a line break after
\* every 4th entry, except that MIPS suppresses the one after position 32:
\* 32 registers give 8 breaks, on MIPS 7.
C10_GridLayout ==
    (Done("context_reg") /\ call.archtype \in RenamingArchs) =>
        LET g == OfKind("reg")
            breaks == Cardinality({i \in 1 .. Len(g) : g[i].brk})
        IN /\ Len(g) = Len(call.regs)
           /\ \A i \in 1 .. Len(g) :
                 /\ g[i].name = locals._cur_regs[i][1]
                 /\ (i - 1) \div 4 \in 0 .. 7
                 /\ g[i].color = _colors[(i - 1) \div 4 + 1]
                 /\ g[i].brk <=> (i % 4 = 0 /\ ~(call.archtype = "MIPS" /\ i = 32))
           /\ Len(g) = 32 => breaks = (IF call.archtype = "MIPS" THEN 7 ELSE 8)

C10_Witness ==
    /\ Done("context_reg")
    /\ call.archtype = "MIPS"
    /\ Len(OfKind("reg")) = 32
    /\ Cardinality({i \in 1 .. 32 : OfKind("reg")[i].brk}) = 7
    /\ OfKind("reg")[32].color = "WHITE"
    /\ ~OfKind("reg")[32].brk
    /\ OfKind("reg")[28].brk

====
